---- MODULE Spec2Model ----
(***************************************************************************)
(* vec2tidb: the migrate command (Qdrant collection -> TiDB table) and the  *)
(* tidb batch-update command, as state machines.                            *)
(*                                                                          *)
(*   Spec            one run of `qdrant migrate`, in both implementations   *)
(*                   the repository holds: commands/qdrant.py (one worker,  *)
(*                   driven by process_with_tqdm) and                       *)
(*                   commands/qdrant/migrate.py (batch_generator and        *)
(*                   batch_processor, driven by process_batches_concurrent).*)
(*   SpecBatchUpdate one run of batch_update_table.                         *)
(***************************************************************************)
EXTENDS Integers, Sequences, FiniteSets, TLC

VARIABLES
    \* ---- the migrate run
    job,              \* the arguments of migrate(): immutable
    collExists,       \* Qdrant: the collection exists
    srcIds,           \* Qdrant: ids of the points of the collection
    distance,         \* Qdrant: the collection's declared distance
    tblExists,        \* TiDB: the target table exists
    tblCols,          \* TiDB: its columns
    rows,             \* TiDB: its rows, id -> [vector, payload, created_at]
    rows0,            \* the rows the table held when the run started
    pc,               \* where migrate() is
    error,            \* the exception that ended the run, "" if none
    vector_total,     \* migrate.py:44
    vector_distance_metric, \* migrate.py:72
    engineOpen,       \* db_engine was created (migrate.py:102)
    current_offset,   \* the scroll cursor of the data scan
    genDone,          \* batch_generator has returned
    batch,            \* legacy: the batch scrolled and not yet written
    queue,            \* batches yielded and not yet taken by a worker
    slots,            \* worker -> the batch it writes and the engine it uses
    nextEngine,       \* engines created so far by create_tidb_engine
    openEngines,      \* per-write engines created and not disposed
    requested,        \* records requested from the source by the data scan
    processed_total,  \* the progress total
    scrollLog,        \* the scroll calls made, in order
    \* ---- history of the run
    ddlLog,           \* the DDL and verification statements issued, in order
    writeLog,         \* the batch writes ended, in order
    grown,            \* records were added to the source during the run
    extIns,           \* another client inserted into the target during the run
    faults,           \* statements that failed for a reason outside the data
    preLog,           \* the precondition checks made on the collection, in order
    again,            \* the runs of the job so far, and the table the first left
    idt,              \* id types: of the first point, of migrate's local, of the table
    \* ---- the batch-update run
    bu,               \* the state of batch_update_table, see BUInit
    \* ---- the dump run
    dp                \* the state of dump and of its fetch_batch, see DumpInit

mvars == <<job, collExists, srcIds, distance, tblExists, tblCols, rows, rows0, pc,
           error, vector_total, vector_distance_metric, engineOpen, current_offset,
           genDone, batch, queue, slots, nextEngine, openEngines, requested,
           processed_total, scrollLog, ddlLog, writeLog, grown, extIns, faults,
           preLog, again, idt>>
vars == <<mvars, bu, dp>>

----------------------------------------------------------------------------
(* Bounds of the model *)
MaxN == 3          \* points in the collection at job start: 0..MaxN
MaxBatch == 2      \* batch sizes 1..MaxBatch
MaxWorkers == 2    \* worker counts 1..MaxWorkers
MaxGrow == 1       \* points added to the collection during a run
MaxFaults == 1     \* statements failing for reasons outside the data

----------------------------------------------------------------------------
(* Values *)

\* Python's None for a cursor; point ids are 1, 2, ...
None == 0
\* an engine id: the engine migrate() creates at job start
db_engine == 1
\* no payload column configured (update mode, --payload-column not given)
NoColumn == ""

\* A point of the collection: its vector and payload are functions of its id;
\* point 2 has no payload (None).
PointVector(i) == i
PointPayload(i) == IF i = 2 THEN None ELSE 100 + i

\* json.dumps: the value as JSON text (None becomes the text null).
json_dumps(v) == <<"json", v>>
SqlNull == <<"NULL", 0>>
OldValue(i) == <<"old", i>>
DefaultTimestamp == <<"ts", 0>>

\* The id no source point ever has: a target row nothing in the source matches.
FarId == MaxN + MaxGrow + 1

SeqToSet(s) == {s[k] : k \in 1..Len(s)}

\* the ids of S in ascending order
SortedSeq(S) ==
    [k \in 1..Cardinality(S) |->
        CHOOSE x \in S : Cardinality({y \in S : y < x}) = k - 1]

Prefix(s, n) == SubSeq(s, 1, IF n < Len(s) THEN n ELSE Len(s))

\* qdrant_client.scroll(limit, offset): the points with id >= offset in id order,
\* at most `limit` of them, and the id of the point after them (None at the end).
Scroll(ids, offset, limit) ==
    LET from == SortedSeq({i \in ids : offset = None \/ i >= offset})
        pts  == Prefix(from, limit)
    IN [points |-> pts,
        next_page_offset |-> IF Len(from) > limit THEN from[limit + 1] ELSE None]

\* str.lower() of the declared distance
Lower(d) == CASE d = "Cosine" -> "cosine"
              [] d = "L2"     -> "l2"
              [] d = "Dot"    -> "dot"
              [] OTHER        -> d

----------------------------------------------------------------------------
(* The target store *)

EmptyRows == [i \in {} |-> SqlNull]
AllCols == {"id", "vector", "payload", "created_at", "updated_at"}
ValidMetrics == {"l2", "cosine"}

\* create_vector_table: "UsageError" for a metric that is neither l2 nor cosine
\* (raised before any statement), else CREATE TABLE, which the store refuses
\* when the table is there already.
create_vector_table(distance_metric, exists) ==
    IF distance_metric \notin ValidMetrics THEN "UsageError"
    ELSE IF exists THEN "OperationalError"
    ELSE ""

\* check_vector_table without the test of the vector column
check_vector_table_novector(exists, cols, payload_column) ==
    IF ~exists THEN "Exception"
    ELSE IF "id" \notin cols THEN "Exception"
    ELSE IF payload_column # NoColumn /\ payload_column \notin cols THEN "Exception"
    ELSE ""

\* check_vector_table: "" when the table and the required columns exist.
check_vector_table(exists, cols, payload_column) ==
    IF ~exists THEN "Exception"
    ELSE IF "id" \notin cols THEN "Exception"
    ELSE IF "vector" \notin cols THEN "Exception"
    ELSE IF payload_column # NoColumn /\ payload_column \notin cols THEN "Exception"
    ELSE ""

InsertedRow(i) ==
    [vector |-> json_dumps(PointVector(i)),
     payload |-> json_dumps(PointPayload(i)),
     created_at |-> DefaultTimestamp]

\* insert_points without the transaction: the rows before the duplicate stay.
insert_points_partial(rws, points) ==
    LET ids == SeqToSet(points)
    IN IF ids \cap DOMAIN rws # {} \/ Cardinality(ids) # Len(points)
       THEN [ok |-> FALSE,
             rows |-> rws @@ [i \in ids \ DOMAIN rws |-> InsertedRow(i)]]
       ELSE [ok |-> TRUE, rows |-> rws @@ [i \in ids |-> InsertedRow(i)]]

\* insert_points: one INSERT of all the points in one transaction; a duplicate
\* key fails the statement and the session rolls back.
insert_points(rws, points) ==
    LET ids == SeqToSet(points)
    IN IF ids \cap DOMAIN rws # {} \/ Cardinality(ids) # Len(points)
       THEN [ok |-> FALSE, rows |-> rws]
       ELSE [ok |-> TRUE, rows |-> rws @@ [i \in ids |-> InsertedRow(i)]]

\* update_points as an upsert: a point with no row gets one.
update_points_upsert(rws, points, payload_column) ==
    LET ids == SeqToSet(points)
    IN [ok |-> TRUE,
        rows |-> [i \in DOMAIN rws \cup ids |->
                    IF i \in ids THEN InsertedRow(i) ELSE rws[i]]]

\* update_points setting the payload from the row's vector when no payload
\* column is configured
update_points_shift(rws, points, payload_column) ==
    LET ids == SeqToSet(points)
    IN [ok |-> TRUE,
        rows |-> [i \in DOMAIN rws |->
                    IF i \in ids
                    THEN [rws[i] EXCEPT
                            !.vector = json_dumps(PointVector(i)),
                            !.payload = IF payload_column # NoColumn
                                        THEN json_dumps(PointPayload(i))
                                        ELSE rws[i].vector]
                    ELSE rws[i]]]

\* update_points setting the payload whether a payload column is configured or not
update_points_payload_always(rws, points, payload_column) ==
    LET ids == SeqToSet(points)
    IN [ok |-> TRUE,
        rows |-> [i \in DOMAIN rws |->
                    IF i \in ids
                    THEN [rws[i] EXCEPT
                            !.vector = json_dumps(PointVector(i)),
                            !.payload = json_dumps(PointPayload(i))]
                    ELSE rws[i]]]

\* update_points: UPDATE ... SET vector[, payload] WHERE id = :id for each point.
update_points(rws, points, payload_column) ==
    LET ids == SeqToSet(points)
    IN [ok |-> TRUE,
        rows |-> [i \in DOMAIN rws |->
                    IF i \in ids
                    THEN [rws[i] EXCEPT
                            !.vector = json_dumps(PointVector(i)),
                            !.payload = IF payload_column # NoColumn
                                        THEN json_dumps(PointPayload(i)) ELSE @]
                    ELSE rws[i]]]

\* batch_processor: the statement it issues for the mode
WritePoints(mode, rws, points, payload_column) ==
    IF mode = "create" THEN insert_points(rws, points)
    ELSE update_points(rws, points, payload_column)

\* batch_processor sharing the job's engine whatever the worker count
worker_db_engine_shared(workers, fresh) == db_engine

\* batch_processor: the engine a write uses: the job's engine with one worker,
\* else a new engine of its own.
worker_db_engine(workers, fresh) == IF workers = 1 THEN db_engine ELSE fresh
cleanup_engine(workers) == workers # 1

\* batch_generator breaking after its first batch
batch_generator_one(ids, offset, batch_size) ==
    LET r == Scroll(ids, offset, batch_size)
    IN [points |-> r.points, offset |-> r.next_page_offset, done |-> TRUE,
        scroll |-> r]

\* batch_generator that leaves current_offset as it was
batch_generator_stale(ids, offset, batch_size) ==
    LET r == Scroll(ids, offset, batch_size)
    IN IF r.points = <<>>
       THEN [points |-> <<>>, offset |-> offset, done |-> TRUE, scroll |-> r]
       ELSE [points |-> r.points, offset |-> offset,
             done |-> r.next_page_offset = None, scroll |-> r]

\* batch_generator, one turn of its loop from `offset`: the batch it yields (none
\* when the scroll returns no points), the next cursor, and whether it returns.
batch_generator(ids, offset, batch_size) ==
    LET r == Scroll(ids, offset, batch_size)
    IN IF r.points = <<>>
       THEN [points |-> <<>>, offset |-> offset, done |-> TRUE, scroll |-> r]
       ELSE [points |-> r.points, offset |-> r.next_page_offset,
             done |-> r.next_page_offset = None, scroll |-> r]

\* process_batches_concurrent: the producer stops once tasks_total records have
\* been requested.
ProducerStops(req, tasks_total) == req >= tasks_total

\* process_batches_concurrent: room for one more batch. One worker pulls a batch
\* only when the one before is written; more workers share a bounded queue.
QueueHasRoom(workers, q, busy) ==
    IF workers = 1 THEN q = <<>> /\ busy = 0 ELSE Len(q) < workers

----------------------------------------------------------------------------
(* tidb batch-update: tables, pagination and the bulk UPDATE *)

MaxSrcRows == 3    \* rows of the source table: 0..MaxSrcRows
MaxTgtRows == 2    \* rows of the target table: 0..MaxTgtRows
MaxPageSize == 2   \* batch sizes 1..MaxPageSize

\* Values of the id columns: integers, one of them with two digits. Neither id
\* column is assumed to be a key: two rows of a table may hold the same id.
BUIds == {2, 9, 10}
\* A source row holds its id and the columns a and b; a target row its id and
\* the columns x, y and z.
SourceRows == {[id |-> i, a |-> v, b |-> 10 + v] : i \in BUIds, v \in {1, 2}}
TargetRows == {[id |-> i, x |-> 0, y |-> 0, z |-> 0] : i \in BUIds}
\* column_mapping, source column -> target column (batch_update.py:93-96); no
\* target column is mapped twice.
Mappings == {("a" :> "x"), ("a" :> "x") @@ ("b" :> "y"), ("b" :> "x")}

RECURSIVE Str(_)
\* str() of a non-negative integer: its decimal digits
Str(n) == IF n < 10 THEN <<n>> ELSE Str(n \div 10) \o <<n % 10>>

RECURSIVE ToNumber(_)
\* the store's conversion of a string parameter compared with an integer column
ToNumber(s) == IF s = <<>> THEN 0
               ELSE 10 * ToNumber(SubSeq(s, 1, Len(s) - 1)) + s[Len(s)]

RECURSIVE SortedIds(_, _)
\* ORDER BY id: the ids of the rows at the positions `left` of table t, ascending
SortedIds(t, left) ==
    IF left = {} THEN <<>>
    ELSE LET k == CHOOSE k \in left : \A j \in left : t[k].id <= t[j].id
         IN <<t[k].id>> \o SortedIds(t, left \ {k})

\* the page number with the - 1 forgotten
PageNumOf_offbyone(row_num, batch_size) == (row_num \div batch_size) + 1

\* FLOOR((row_num - 1) / :batch_size) + 1
PageNumOf(row_num, batch_size) == ((row_num - 1) \div batch_size) + 1

MinOf(S) == CHOOSE x \in S : \A y \in S : x <= y

\* MAX taken as MIN
MaxOf_asMin(S) == MinOf(S)

MaxOf(S) == CHOOSE x \in S : \A y \in S : x >= y

\* GROUP BY page_num over n numbered rows: the page numbers, and the row numbers
\* of a page
PageNums(n, batch_size) == {PageNumOf(r, batch_size) : r \in 1..n}
PageGroup(n, batch_size, p) == {r \in 1..n : PageNumOf(r, batch_size) = p}

\* The pagination query over the ids in row-number order: GROUP BY page_num,
\* ORDER BY page_num, with MIN, MAX and COUNT of each group, the keys through str().
Paginate(ordered, batch_size) ==
    LET n == Len(ordered)
        nums == PageNums(n, batch_size)
    IN [k \in 1..Cardinality(nums) |->
          LET p == CHOOSE p \in nums : Cardinality({q \in nums : q < p}) = k - 1
          IN [start_key |-> Str(MinOf({ordered[r] : r \in PageGroup(n, batch_size, p)})),
              end_key |-> Str(MaxOf({ordered[r] : r \in PageGroup(n, batch_size, p)})),
              page_num |-> p,
              page_size |-> Cardinality(PageGroup(n, batch_size, p))]]

get_table_pagination(table, batch_size) ==
    Paginate(SortedIds(table, DOMAIN table), batch_size)

\* the range without its end key
InRange_exclusive(id, start_key, end_key) ==
    id >= ToNumber(start_key) /\ id < ToNumber(end_key)

\* WHERE s.id >= :start_key AND s.id <= :end_key
InRange(id, start_key, end_key) ==
    id >= ToNumber(start_key) /\ id <= ToNumber(end_key)

\* set_clause: the pairs (target column, source column) of t.target = s.source
SetClause(column_mapping) ==
    {<<column_mapping[sc], sc>> : sc \in DOMAIN column_mapping}

\* One source row's mapped columns written into a target row
SetColumns(t, srow, column_mapping) ==
    [c \in DOMAIN t |->
        IF \E sc \in DOMAIN column_mapping : column_mapping[sc] = c
        THEN srow[CHOOSE sc \in DOMAIN column_mapping : column_mapping[sc] = c]
        ELSE t[c]]

\* batch_update_within_range: the UPDATE ... JOIN of one page. Every target row
\* whose id equals the id of a source row of the range is set from such a row
\* (the store picks one when several match); rowcount is the number of target
\* rows matched. The set of the outcomes the statement can have.
batch_update_within_range(source, target, column_mapping, start_key, end_key) ==
    LET update_source == {k \in DOMAIN source :
                            InRange(source[k].id, start_key, end_key)}
        matches(j) == {k \in update_source : source[k].id = target[j].id}
        joined == {j \in DOMAIN target : matches(j) # {}}
        picks == {f \in [joined -> DOMAIN source] : \A j \in joined : f[j] \in matches(j)}
    IN {[target |-> [j \in DOMAIN target |->
                        IF j \in joined
                        THEN SetColumns(target[j], source[f[j]], column_mapping)
                        ELSE target[j]],
         rowcount |-> Cardinality(joined)] : f \in picks}

\* batch_update_table going on to the next page after a failure
AfterFailedPage_continue == "update"

\* batch_update_table: what follows a page whose UPDATE failed. The
\* ClickException of batch_update_within_range leaves the loop.
AfterFailedPage == "failed"

\* Tables in a canonical row order (a table is a bag of rows)
RowKey(r) == 100 * r.id + (IF "a" \in DOMAIN r THEN r.a ELSE 0)
TablesOf(rowset, maxrows) ==
    {t \in UNION {[1..n -> rowset] : n \in 0..maxrows} :
        \A k \in 1..(Len(t) - 1) : RowKey(t[k]) <= RowKey(t[k + 1])}

BUIdle == [pc |-> "idle"]

----------------------------------------------------------------------------
(* qdrant dump: fetch_batch *)

MaxFetchSize == 420    \* batch sizes asked of fetch_batch directly: 100..MaxFetchSize

\* for attempt in range(max_retries)
max_retries == 3
\* the batch size at and below which fetch_batch does not shrink the batch
SizeFloor == 100

\* What a scroll call does: it returns, or raises an exception whose text holds
\* "Message too long", or raises another exception.
Outcomes == {"ok", "too_long", "error"}

\* return [], None
EmptyResult == [points |-> <<>>, next_page_offset |-> None]

\* if "Message too long" in str(e) and batch_size_limit > 100
ShrinkTried(outcome, size) == outcome = "too_long" /\ size > SizeFloor

\* new_batch_size = batch_size_limit // 2
new_batch_size(size) == size \div 2

\* the recursion taken whatever the new size
Recurses_always(new) == TRUE

\* if new_batch_size >= 100: return await fetch_batch(batch_offset, new_batch_size)
Recurses(new) == new >= SizeFloor

\* no retry left at any attempt
RetryLeft_none(attempt) == FALSE

\* one retry more than max_retries allows
RetryLeft_extra(attempt) == attempt < max_retries

\* elif attempt < max_retries - 1
RetryLeft(attempt) == attempt < max_retries - 1

\* the for loop has another iteration after this one
LoopHasNext(attempt) == attempt + 1 < max_retries

\* The state of one fetch_batch call: the arguments, the size and the attempt
\* of the innermost invocation, the scroll calls made so far, and the result.
NewFetch(batch_offset, batch_size_limit) ==
    [status |-> "running", offset |-> batch_offset, requested |-> batch_size_limit,
     size |-> batch_size_limit, attempt |-> 0, flog |-> <<>>, result |-> EmptyResult]

NoFetch == [status |-> "idle"]

\* fetch_batch, one scroll call with its outcome and the except clause that
\* follows a failure. The recursive call returns what the inner invocation
\* returns, so the invocation in progress is always the innermost one.
fetch_batch(f, outcome, ids) ==
    LET call(slept) == [limit |-> f.size, offset |-> f.offset, outcome |-> outcome,
                        attempt |-> f.attempt, slept |-> slept]
        returns(r) == [f EXCEPT !.status = "returned", !.result = r,
                                !.flog = Append(@, call(FALSE))]
    IN IF outcome = "ok" THEN returns(Scroll(ids, f.offset, f.size))
       ELSE IF ShrinkTried(outcome, f.size)
       THEN IF Recurses(new_batch_size(f.size))
            THEN [f EXCEPT !.size = new_batch_size(f.size), !.attempt = 0,
                           !.flog = Append(@, call(FALSE))]
            ELSE IF LoopHasNext(f.attempt)
                 THEN [f EXCEPT !.attempt = @ + 1, !.flog = Append(@, call(FALSE))]
                 ELSE returns(EmptyResult)
       ELSE IF RetryLeft(f.attempt)
            THEN [f EXCEPT !.attempt = @ + 1, !.flog = Append(@, call(TRUE))]
            ELSE returns(EmptyResult)

DIdle == [pc |-> "idle"]

----------------------------------------------------------------------------
(* Initial states of a migrate run *)

\* the id of a point: an integer, a string of some length, or something else
IdKinds ==
    {[kind |-> "int", len |-> 0], [kind |-> "other", len |-> 0]}
    \cup {[kind |-> "str", len |-> n] : n \in {1, 36}}
IntId == [kind |-> "int", len |-> 0]

\* column types, and the outcomes that are none
BIGINT == [name |-> "BIGINT", len |-> 0]
VARCHAR(n) == [name |-> "VARCHAR", len |-> n]
NoType == [name |-> "", len |-> 0]
BadParameter == [name |-> "BadParameter", len |-> 0]

\* --id-column-type, default BIGINT
IdTypeArgs == {BIGINT, VARCHAR(64)}

\* with the id type the caller passed kept for integer ids
sample_id_column_type_given(id, given) ==
    IF id.kind = "int" THEN given
    ELSE IF id.kind = "str" THEN VARCHAR(id.len)
    ELSE BadParameter

\* migrate, the id column type taken from the sampled point: BIGINT for an
\* integer id, VARCHAR(len) for a string id, BadParameter for any other
sample_id_column_type(id, given) ==
    IF id.kind = "int" THEN BIGINT
    ELSE IF id.kind = "str" THEN VARCHAR(id.len)
    ELSE BadParameter

Jobs ==
    {j \in [impl : {"legacy", "concurrent"}, mode : {"create", "update"},
            workers : 1..MaxWorkers, batch_size : 1..MaxBatch,
            drop_table : BOOLEAN, payload_column : {NoColumn, "payload"},
            id_column_type : IdTypeArgs] :
        /\ j.impl = "legacy" => j.workers = 1
        \* cli.py:176-184: create mode defaults the payload column
        /\ j.mode = "create" => j.payload_column = "payload"}

OldRow(i) == [vector |-> OldValue(i), payload |-> OldValue(i), created_at |-> OldValue(i)]
OldRows(S) == [i \in S |-> OldRow(i)]

Targets ==
    {[exists |-> FALSE, cols |-> {}, rows |-> EmptyRows]}
    \cup {[exists |-> TRUE, cols |-> AllCols, rows |-> OldRows(S)] :
            S \in {{}, {1, FarId}, {2}}}
    \cup {[exists |-> TRUE, cols |-> AllCols \ {c}, rows |-> EmptyRows] :
            c \in {"id", "vector", "payload"}}

Sources ==
    {[exists |-> FALSE, ids |-> {}, distance |-> "Cosine"]}
    \cup {[exists |-> TRUE, ids |-> 1..n, distance |-> d] :
            n \in 0..MaxN, d \in {"Cosine", "L2", "Dot"}}

EmptySlot == [batch |-> <<>>, engine |-> None]

\* the first run of the job: no run has left a table yet
FirstRun == [n |-> 1, rows1 |-> EmptyRows]

\* The states a run starts in, for jobs, collections and first-point ids of the
\* given sets. The id column of a table that is there before the run is BIGINT.
InitWith(jobs, sources, ids) ==
    /\ job \in jobs
    /\ \E s \in sources :
        /\ collExists = s.exists
        /\ srcIds = s.ids
        /\ distance = s.distance
    /\ \E t \in Targets :
        /\ tblExists = t.exists
        /\ tblCols = t.cols
        /\ rows = t.rows
        /\ rows0 = t.rows
        /\ \E id \in ids :
            idt = [first |-> id, local |-> job.id_column_type,
                   column |-> IF "id" \in t.cols THEN BIGINT ELSE NoType]
    /\ pc = "check_collection"
    /\ error = ""
    /\ vector_total = 0
    /\ vector_distance_metric = ""
    /\ engineOpen = FALSE
    /\ current_offset = None
    /\ genDone = FALSE
    /\ batch = <<>>
    /\ queue = <<>>
    /\ slots = [w \in 1..MaxWorkers |-> EmptySlot]
    /\ nextEngine = db_engine
    /\ openEngines = {}
    /\ requested = 0
    /\ processed_total = 0
    /\ scrollLog = <<>>
    /\ ddlLog = <<>>
    /\ writeLog = <<>>
    /\ grown = 0
    /\ extIns = FALSE
    /\ faults = 0
    /\ preLog = <<>>
    /\ again = FirstRun
    /\ bu = BUIdle
    /\ dp = DIdle

\* A run with the id type left at its default, over a collection of integer ids
Init == InitWith({j \in Jobs : j.id_column_type = BIGINT}, Sources, {IntId})

\* Runs with any id type passed, over small collections of any kind of id
InitIdType ==
    InitWith(Jobs, {s \in Sources : Cardinality(s.ids) <= 1}, IdKinds)

----------------------------------------------------------------------------
(* migrate(): the precondition checks *)

Fail(kind) == /\ pc' = "failed"
              /\ error' = kind

BusySlots == {w \in 1..MaxWorkers : slots[w].batch # <<>>}

\* the emptiness test skipped
EmptyCollection_never(total) == FALSE

\* if vector_total == 0
EmptyCollection(total) == total = 0

\* collection_exists, else UsageError
CheckCollection ==
    /\ pc = "check_collection"
    /\ preLog' = Append(preLog, "collection_exists")
    /\ IF collExists THEN pc' = "count" /\ error' = error ELSE Fail("UsageError")
    /\ UNCHANGED <<job, collExists, srcIds, distance, tblExists, tblCols, rows, rows0,
                   vector_total, vector_distance_metric, engineOpen, current_offset,
                   genDone, batch, queue, slots, nextEngine, openEngines, requested,
                   processed_total, scrollLog, ddlLog, writeLog, grown, extIns, faults, bu, dp, again, idt>>

\* count, UsageError when the collection is empty
CountSource ==
    /\ pc = "count"
    /\ preLog' = Append(preLog, "count")
    /\ vector_total' = Cardinality(srcIds)
    /\ IF EmptyCollection(vector_total') THEN Fail("UsageError")
       ELSE pc' = "sample" /\ error' = error
    /\ UNCHANGED <<job, collExists, srcIds, distance, tblExists, tblCols, rows, rows0,
                   vector_distance_metric, engineOpen, current_offset,
                   genDone, batch, queue, slots, nextEngine, openEngines, requested,
                   processed_total, scrollLog, ddlLog, writeLog, grown, extIns, faults, bu, dp, again, idt>>

ScrollEntry(scan, offset, limit, r) ==
    [scan |-> scan, offset |-> offset, limit |-> limit,
     got |-> Len(r.points), next |-> r.next_page_offset, ok |-> TRUE]

\* a scroll call that raised
FailedScroll(scan, offset, limit) ==
    [scan |-> scan, offset |-> offset, limit |-> limit,
     got |-> 0, next |-> None, ok |-> FALSE]

\* the one-point scroll that samples the id type: the local id_column_type is
\* BIGINT, then what the first point returned gives; an id that is neither an
\* integer nor a string raises BadParameter
SampleId ==
    /\ pc = "sample"
    /\ LET r == Scroll(srcIds, None, 1)
           t == IF r.points = <<>> THEN BIGINT
                ELSE sample_id_column_type(idt.first, job.id_column_type)
       IN /\ scrollLog' = Append(scrollLog, ScrollEntry("sample", None, 1, r))
          /\ IF t = BadParameter
             THEN Fail("BadParameter") /\ idt' = idt
             ELSE /\ idt' = [idt EXCEPT !.local = t]
                  /\ pc' = "get_collection"
                  /\ error' = error
    /\ UNCHANGED <<job, collExists, srcIds, distance, tblExists, tblCols, rows, rows0,
                   vector_total, vector_distance_metric, engineOpen, current_offset,
                   genDone, batch, queue, slots, nextEngine, openEngines, requested,
                   processed_total, ddlLog, writeLog, grown, extIns, faults, bu, preLog,
                   dp, again>>

\* get_collection: the dimension and the distance metric, lower-cased
GetCollection ==
    /\ pc = "get_collection"
    /\ vector_distance_metric' = Lower(distance)
    /\ pc' = "connect"
    /\ UNCHANGED <<job, collExists, srcIds, distance, tblExists, tblCols, rows, rows0,
                   error, vector_total, engineOpen, current_offset,
                   genDone, batch, queue, slots, nextEngine, openEngines, requested,
                   processed_total, scrollLog, ddlLog, writeLog, grown, extIns, faults, bu, preLog, dp, again, idt>>

\* the table never dropped
DropFirst_never(drop_table) == FALSE

\* if drop_table: drop_vector_table(...), before create_vector_table
DropFirst(drop_table) == drop_table

\* create_tidb_engine, then the branch on the mode
Connect ==
    /\ pc = "connect"
    /\ engineOpen' = TRUE
    /\ pc' = IF job.mode = "create"
             THEN (IF DropFirst(job.drop_table) THEN "drop" ELSE "create")
             ELSE "check"
    /\ UNCHANGED <<job, collExists, srcIds, distance, tblExists, tblCols, rows, rows0,
                   error, vector_total, vector_distance_metric, current_offset,
                   genDone, batch, queue, slots, nextEngine, openEngines, requested,
                   processed_total, scrollLog, ddlLog, writeLog, grown, extIns, faults, bu, preLog, dp, again, idt>>

----------------------------------------------------------------------------
(* migrate(): bootstrap *)

\* drop_vector_table: DROP TABLE IF EXISTS
DropTable ==
    /\ pc = "drop"
    /\ tblExists' = FALSE
    /\ tblCols' = {}
    /\ rows' = EmptyRows
    /\ ddlLog' = Append(ddlLog, "drop")
    /\ idt' = [idt EXCEPT !.column = NoType]
    /\ pc' = "create"
    /\ UNCHANGED <<job, collExists, srcIds, distance, rows0,
                   error, vector_total, vector_distance_metric, engineOpen, current_offset,
                   genDone, batch, queue, slots, nextEngine, openEngines, requested,
                   processed_total, scrollLog, writeLog, grown, extIns, faults, bu, preLog, dp, again>>

\* create_vector_table inside try/except Exception -> ClickException
CreateTable ==
    /\ pc = "create"
    /\ LET e == create_vector_table(vector_distance_metric, tblExists)
       IN IF e = ""
          THEN /\ tblExists' = TRUE
               /\ tblCols' = AllCols
               /\ rows' = EmptyRows
               /\ ddlLog' = Append(ddlLog, "create")
               /\ idt' = [idt EXCEPT !.column = idt.local]
               /\ pc' = "stream"
               /\ error' = error
          ELSE /\ Fail("ClickException")
               /\ ddlLog' = IF e = "UsageError" THEN ddlLog
                            ELSE Append(ddlLog, "create_refused")
               /\ UNCHANGED <<tblExists, tblCols, rows, idt>>
    /\ UNCHANGED <<job, collExists, srcIds, distance, rows0,
                   vector_total, vector_distance_metric, engineOpen, current_offset,
                   genDone, batch, queue, slots, nextEngine, openEngines, requested,
                   processed_total, scrollLog, writeLog, grown, extIns, faults, bu, preLog, dp, again>>

\* check_vector_table inside try/except Exception -> ClickException
CheckTable ==
    /\ pc = "check"
    /\ ddlLog' = Append(ddlLog, "check")
    /\ IF check_vector_table(tblExists, tblCols, job.payload_column) = ""
       THEN pc' = "stream" /\ error' = error
       ELSE Fail("ClickException")
    /\ UNCHANGED <<job, collExists, srcIds, distance, tblExists, tblCols, rows, rows0,
                   vector_total, vector_distance_metric, engineOpen, current_offset,
                   genDone, batch, queue, slots, nextEngine, openEngines, requested,
                   processed_total, scrollLog, writeLog, grown, extIns, faults, bu, preLog, dp, again, idt>>

----------------------------------------------------------------------------
(* migrate(): streaming *)

WriteEntry(points, engine, ok) == [batch |-> points, engine |-> engine, ok |-> ok]

\* the total counting batches, not records
ProgressAfter_batches(total, processed_count) == total + 1

\* process_with_tqdm: the total after a batch result
ProgressAfter(total, processed_count) == total + processed_count

\* process_with_tqdm: the loop goes on after a batch result
LoopContinues(processed_count, has_more) == processed_count # 0 /\ has_more

\* commands/qdrant.py batch_processor, first half: scroll from current_offset;
\* no points ends the loop (it returns 0, False). The scroll call has no handler
\* around it, here or in process_with_tqdm: when it raises, the run ends.
LegacyFetch ==
    /\ pc = "stream"
    /\ job.impl = "legacy"
    /\ batch = <<>>
    /\ requested' = requested + job.batch_size
    /\ \/ /\ LET r == Scroll(srcIds, current_offset, job.batch_size)
             IN /\ scrollLog' = Append(scrollLog,
                      ScrollEntry("data", current_offset, job.batch_size, r))
                /\ IF r.points = <<>>
                   THEN /\ pc' = "done"
                        /\ UNCHANGED <<current_offset, batch>>
                   ELSE /\ current_offset' = r.next_page_offset
                        /\ batch' = r.points
                        /\ pc' = pc
          /\ UNCHANGED <<error, faults>>
       \/ /\ faults < MaxFaults
          /\ faults' = faults + 1
          /\ scrollLog' = Append(scrollLog,
                FailedScroll("data", current_offset, job.batch_size))
          /\ Fail("Exception")
          /\ UNCHANGED <<current_offset, batch>>
    /\ UNCHANGED <<job, collExists, srcIds, distance, tblExists, tblCols, rows, rows0,
                   vector_total, vector_distance_metric, engineOpen,
                   genDone, queue, slots, nextEngine, openEngines,
                   processed_total, ddlLog, writeLog, grown, extIns, bu, preLog, dp, again, idt>>

\* commands/qdrant.py batch_processor, second half, and process_with_tqdm's
\* bookkeeping: write the batch on db_engine, add its length to the total, go on
\* while there is a cursor. A failed write propagates out of the loop.
LegacyWrite ==
    /\ pc = "stream"
    /\ job.impl = "legacy"
    /\ batch # <<>>
    /\ LET w == WritePoints(job.mode, rows, batch, job.payload_column)
       IN \E fault \in BOOLEAN :
            /\ fault => (faults < MaxFaults /\ w.ok)
            /\ IF w.ok /\ ~fault
               THEN /\ rows' = w.rows
                    /\ processed_total' = ProgressAfter(processed_total, Len(batch))
                    /\ writeLog' = Append(writeLog, WriteEntry(batch, db_engine, TRUE))
                    /\ pc' = IF LoopContinues(Len(batch), current_offset # None)
                             THEN "stream" ELSE "done"
                    /\ UNCHANGED <<error, faults>>
               ELSE /\ Fail("Exception")
                    /\ writeLog' = Append(writeLog, WriteEntry(batch, db_engine, FALSE))
                    /\ faults' = IF fault THEN faults + 1 ELSE faults
                    /\ rows' = IF fault THEN rows ELSE w.rows
                    /\ UNCHANGED processed_total
    /\ batch' = <<>>
    /\ UNCHANGED <<job, collExists, srcIds, distance, tblExists, tblCols, rows0,
                   vector_total, vector_distance_metric, engineOpen, current_offset,
                   genDone, queue, slots, nextEngine, openEngines, requested,
                   scrollLog, ddlLog, grown, extIns, bu, preLog, dp, again, idt>>

\* commands/qdrant/migrate.py: the scheduler pulls the next batch from
\* batch_generator and queues it. The scroll call has no handler around it in
\* batch_generator: when it raises, the generator ends with the exception, no
\* further batch is dispatched and the run fails once the writes in progress
\* have ended.
GenFetch ==
    /\ pc = "stream"
    /\ job.impl = "concurrent"
    /\ error = ""
    /\ ~genDone
    /\ QueueHasRoom(job.workers, queue, Cardinality(BusySlots))
    /\ requested' = requested + job.batch_size
    /\ \/ /\ LET g == batch_generator(srcIds, current_offset, job.batch_size)
             IN /\ scrollLog' = Append(scrollLog,
                      ScrollEntry("data", current_offset, job.batch_size, g.scroll))
                /\ current_offset' = g.offset
                /\ queue' = IF g.points = <<>> THEN queue ELSE Append(queue, g.points)
                /\ genDone' = (g.done \/ ProducerStops(requested', vector_total))
          /\ UNCHANGED <<pc, error, faults>>
       \/ /\ faults < MaxFaults
          /\ faults' = faults + 1
          /\ scrollLog' = Append(scrollLog,
                FailedScroll("data", current_offset, job.batch_size))
          /\ error' = "Exception"
          /\ genDone' = TRUE
          /\ pc' = IF BusySlots = {} THEN "failed" ELSE "stream"
          /\ UNCHANGED <<current_offset, queue>>
    /\ UNCHANGED <<job, collExists, srcIds, distance, tblExists, tblCols, rows, rows0,
                   vector_total, vector_distance_metric, engineOpen,
                   batch, slots, nextEngine, openEngines,
                   processed_total, ddlLog, writeLog, grown, extIns, bu, preLog, dp, again, idt>>

\* batch_processor, up to the statement: a worker takes the next batch and
\* picks its engine.
WorkerBegin(w) ==
    /\ pc = "stream"
    /\ job.impl = "concurrent"
    /\ error = ""
    /\ w \in 1..job.workers
    /\ slots[w].batch = <<>>
    /\ queue # <<>>
    /\ LET e == worker_db_engine(job.workers, nextEngine + 1)
       IN /\ slots' = [slots EXCEPT ![w] = [batch |-> Head(queue), engine |-> e]]
          /\ nextEngine' = IF cleanup_engine(job.workers) THEN nextEngine + 1
                           ELSE nextEngine
          /\ openEngines' = IF cleanup_engine(job.workers) THEN openEngines \cup {e}
                            ELSE openEngines
    /\ queue' = Tail(queue)
    /\ UNCHANGED <<job, collExists, srcIds, distance, tblExists, tblCols, rows, rows0,
                   pc, error, vector_total, vector_distance_metric, engineOpen,
                   current_offset, genDone, batch, requested,
                   processed_total, scrollLog, ddlLog, writeLog, grown, extIns, faults, bu, preLog, dp, again, idt>>

\* batch_processor, the statement and the finally block: the write commits or
\* fails, the engine made for it is disposed, and the scheduler adds the count.
\* After a failure no further batch is dispatched; the run fails once the writes
\* in progress have ended.
WorkerEnd(w) ==
    /\ pc = "stream"
    /\ job.impl = "concurrent"
    /\ w \in 1..job.workers
    /\ slots[w].batch # <<>>
    /\ LET pts == slots[w].batch
           e == slots[w].engine
           wr == WritePoints(job.mode, rows, pts, job.payload_column)
       IN \E fault \in BOOLEAN :
            /\ fault => (faults < MaxFaults /\ wr.ok)
            /\ IF wr.ok /\ ~fault
               THEN /\ rows' = wr.rows
                    /\ processed_total' = ProgressAfter(processed_total, Len(pts))
                    /\ writeLog' = Append(writeLog, WriteEntry(pts, e, TRUE))
                    /\ error' = error
                    /\ faults' = faults
               ELSE /\ error' = IF error = "" THEN "Exception" ELSE error
                    /\ writeLog' = Append(writeLog, WriteEntry(pts, e, FALSE))
                    /\ faults' = IF fault THEN faults + 1 ELSE faults
                    /\ rows' = IF fault THEN rows ELSE wr.rows
                    /\ UNCHANGED processed_total
            /\ openEngines' = IF cleanup_engine(job.workers) THEN openEngines \ {e}
                              ELSE openEngines
    /\ slots' = [slots EXCEPT ![w] = EmptySlot]
    /\ pc' = IF error' # "" /\ BusySlots \ {w} = {} THEN "failed" ELSE "stream"
    /\ UNCHANGED <<job, collExists, srcIds, distance, tblExists, tblCols, rows0,
                   vector_total, vector_distance_metric, engineOpen,
                   current_offset, genDone, batch, queue, nextEngine, requested,
                   scrollLog, ddlLog, grown, extIns, bu, preLog, dp, again, idt>>

\* process_batches_concurrent returns: the producer has stopped and every batch
\* it queued is written.
Finish ==
    /\ pc = "stream"
    /\ job.impl = "concurrent"
    /\ error = ""
    /\ genDone
    /\ queue = <<>>
    /\ BusySlots = {}
    /\ pc' = "done"
    /\ UNCHANGED <<job, collExists, srcIds, distance, tblExists, tblCols, rows, rows0,
                   error, vector_total, vector_distance_metric, engineOpen,
                   current_offset, genDone, batch, queue, slots, nextEngine,
                   openEngines, requested, processed_total, scrollLog, ddlLog,
                   writeLog, grown, extIns, faults, bu, preLog, dp, again, idt>>

----------------------------------------------------------------------------
(* The environment of a migrate run *)

\* another client adds a point to the collection while the run streams
SourceAdd ==
    /\ pc = "stream"
    /\ grown < MaxGrow
    /\ srcIds' = srcIds \cup {Cardinality(srcIds) + 1}
    /\ grown' = grown + 1
    /\ UNCHANGED <<job, collExists, distance, tblExists, tblCols, rows, rows0, pc,
                   error, vector_total, vector_distance_metric, engineOpen,
                   current_offset, genDone, batch, queue, slots, nextEngine,
                   openEngines, requested, processed_total, scrollLog, ddlLog,
                   writeLog, extIns, faults, bu, preLog, dp, again, idt>>

\* another client inserts a row into the table a create-mode run fills
ExternalInsert ==
    /\ pc = "stream"
    /\ job.mode = "create"
    /\ ~extIns
    /\ \E i \in (1..MaxN) \ DOMAIN rows : rows' = rows @@ (i :> OldRow(i))
    /\ extIns' = TRUE
    /\ UNCHANGED <<job, collExists, srcIds, distance, tblExists, tblCols, rows0, pc,
                   error, vector_total, vector_distance_metric, engineOpen,
                   current_offset, genDone, batch, queue, slots, nextEngine,
                   openEngines, requested, processed_total, scrollLog, ddlLog,
                   writeLog, grown, faults, bu, preLog, dp, again, idt>>

Next ==
    \/ CheckCollection
    \/ CountSource
    \/ SampleId
    \/ GetCollection
    \/ Connect
    \/ DropTable
    \/ CreateTable
    \/ CheckTable
    \/ LegacyFetch
    \/ LegacyWrite
    \/ GenFetch
    \/ \E w \in 1..MaxWorkers : WorkerBegin(w)
    \/ \E w \in 1..MaxWorkers : WorkerEnd(w)
    \/ Finish
    \/ SourceAdd
    \/ ExternalInsert

Spec == Init /\ [][Next]_vars

\* The runs of migrate with any --id-column-type over any kind of point id
SpecIdType == InitIdType /\ [][Next]_vars

\* The same update-mode job is started again after it has finished: migrate()
\* begins anew on the collection and the table as they are.
RunAgain ==
    /\ pc = "done"
    /\ job.mode = "update"
    /\ again.n = 1
    /\ again' = [n |-> 2, rows1 |-> rows]
    /\ rows0' = rows
    /\ pc' = "check_collection"
    /\ error' = ""
    /\ vector_total' = 0
    /\ vector_distance_metric' = ""
    /\ engineOpen' = FALSE
    /\ current_offset' = None
    /\ genDone' = FALSE
    /\ batch' = <<>>
    /\ queue' = <<>>
    /\ slots' = [w \in 1..MaxWorkers |-> EmptySlot]
    /\ nextEngine' = db_engine
    /\ openEngines' = {}
    /\ requested' = 0
    /\ processed_total' = 0
    /\ scrollLog' = <<>>
    /\ ddlLog' = <<>>
    /\ writeLog' = <<>>
    /\ preLog' = <<>>
    /\ idt' = [idt EXCEPT !.local = job.id_column_type]
    /\ UNCHANGED <<job, collExists, srcIds, distance, tblExists, tblCols, rows,
                   grown, extIns, faults, bu, dp>>

NextTwice ==
    \/ Next
    \/ RunAgain

SpecTwice == Init /\ [][NextTwice]_vars

----------------------------------------------------------------------------
(* batch_update_table *)

\* No migrate run takes place during a batch-update run.
MIdle ==
    /\ job = [impl |-> "legacy", mode |-> "create", workers |-> 1, batch_size |-> 1,
              drop_table |-> FALSE, payload_column |-> "payload",
              id_column_type |-> BIGINT]
    /\ idt = [first |-> IntId, local |-> BIGINT, column |-> NoType]
    /\ collExists = FALSE /\ srcIds = {} /\ distance = "Cosine"
    /\ tblExists = FALSE /\ tblCols = {} /\ rows = EmptyRows /\ rows0 = EmptyRows
    /\ pc = "idle" /\ error = ""
    /\ vector_total = 0 /\ vector_distance_metric = ""
    /\ engineOpen = FALSE /\ current_offset = None /\ genDone = FALSE
    /\ batch = <<>> /\ queue = <<>>
    /\ slots = [w \in 1..MaxWorkers |-> EmptySlot]
    /\ nextEngine = db_engine /\ openEngines = {}
    /\ requested = 0 /\ processed_total = 0
    /\ scrollLog = <<>> /\ ddlLog = <<>> /\ writeLog = <<>>
    /\ grown = 0 /\ extIns = FALSE /\ faults = 0 /\ preLog = <<>>
    /\ again = FirstRun

BUInit ==
    /\ MIdle
    /\ dp = DIdle
    /\ \E src \in TablesOf(SourceRows, MaxSrcRows), tgt \in TablesOf(TargetRows, MaxTgtRows),
          m \in Mappings, b \in 1..MaxPageSize :
        bu = [pc |-> "paginate",
              caller |-> "direct",        \* batch_update_table called by itself
              source |-> src,             \* the source table
              target |-> tgt,             \* the target table
              target0 |-> tgt,            \* the target table at the start
              column_mapping |-> m,
              batch_size |-> b,
              pages |-> <<>>,             \* batch_update.py:153
              page_idx |-> 1,             \* the page the loop is at
              total_updated |-> 0,        \* batch_update.py:162
              result |-> 0,               \* the value returned
              paginations |-> 0,          \* calls of get_table_pagination
              stmtLog |-> <<>>,           \* the UPDATE statements issued
              afterOk |-> tgt,            \* the target after the last UPDATE that succeeded
              error |-> ""]

\* batch_update_table, lines 153-162: the pages, computed once; no page, return 0
BUPaginate ==
    /\ bu.pc = "paginate"
    /\ LET pages == get_table_pagination(bu.source, bu.batch_size)
       IN bu' = [bu EXCEPT !.pages = pages,
                          !.paginations = @ + 1,
                          !.pc = IF pages = <<>> THEN "done" ELSE "update"]
    /\ UNCHANGED <<mvars, dp>>

\* batch_update_table, one turn of the loop: the UPDATE of the page, which
\* commits, or fails with nothing changed and raises.
BUUpdatePage ==
    /\ bu.pc = "update"
    /\ LET page == bu.pages[bu.page_idx]
           last == bu.page_idx = Len(bu.pages)
           outcomes == batch_update_within_range(bu.source, bu.target,
                          bu.column_mapping, page.start_key, page.end_key)
       IN \/ \E o \in outcomes :
               bu' = [bu EXCEPT
                        !.target = o.target,
                        !.afterOk = o.target,
                        !.total_updated = @ + o.rowcount,
                        !.stmtLog = Append(@, [page_num |-> page.page_num, ok |-> TRUE,
                                               rowcount |-> o.rowcount,
                                               set |-> SetClause(bu.column_mapping)]),
                        !.page_idx = @ + 1,
                        !.pc = IF last THEN "done" ELSE "update",
                        !.result = IF last THEN bu.total_updated + o.rowcount ELSE @]
          \/ bu' = [bu EXCEPT
                        !.stmtLog = Append(@, [page_num |-> page.page_num, ok |-> FALSE,
                                               rowcount |-> 0,
                                               set |-> SetClause(bu.column_mapping)]),
                        !.error = "ClickException",
                        !.page_idx = IF AfterFailedPage = "failed" THEN @ ELSE @ + 1,
                        !.pc = IF AfterFailedPage = "failed" THEN "failed"
                               ELSE IF last THEN "done" ELSE "update"]
    /\ UNCHANGED <<mvars, dp>>

BUNext ==
    \/ BUPaginate
    \/ BUUpdatePage

SpecBatchUpdate == BUInit /\ [][BUNext]_vars

----------------------------------------------------------------------------
(* tidb batch-update, the command: batch_update_impl *)

MaxImplRows == 2   \* rows of each table of a batch-update command: 0..MaxImplRows

\* the columns of the two tables
SourceCols == {"id", "a", "b"}
TargetCols == {"id", "x", "y", "z"}
\* --source-id-column, --target-id-column
IdColumnArgs == {<<"id", "id">>, <<"uid", "id">>, <<"id", "uid">>}

\* --column-mapping, the pairs first:second in the order given
CliMappings ==
    {<<<<"a", "x">>>>, <<<<"a", "x">>, <<"b", "y">>>>, <<<<"b", "x">>>>,
     <<<<"a", "y">>, <<"a", "x">>>>, <<<<"x", "a">>>>, <<<<"a", "w">>>>}

\* tidb_batch_update: source_col, target_col = mapping.split(":", 1);
\* mapping_dict[source_col] = target_col, a later pair replacing an earlier one
parse_column_mapping(pairs) ==
    [sc \in {pairs[k][1] : k \in 1..Len(pairs)} |->
        LET last == MaxOf({k \in 1..Len(pairs) : pairs[k][1] = sc})
        IN pairs[last][2]]

\* column_mapping.items(): the keys in the order they were first inserted
MappingItems(pairs) ==
    LET dict == parse_column_mapping(pairs)
        firsts == SortedSeq({k \in 1..Len(pairs) :
                      \A j \in 1..(k - 1) : pairs[j][1] # pairs[k][1]})
    IN [i \in 1..Len(firsts) |->
          <<pairs[firsts[i]][1], dict[pairs[firsts[i]][1]]>>]

\* validate_table_exists: SELECT 1 FROM table LIMIT 1 returned a row; False
\* when the statement fails
validate_table_exists(exists, table) == exists /\ table # <<>>

\* validate_column_exists with the test of the column left out
validate_column_exists_any(exists, cols, column_name) == exists

\* validate_column_exists: the column is among SHOW COLUMNS; False when the
\* statement fails
validate_column_exists(exists, cols, column_name) ==
    exists /\ column_name \in cols

RECURSIVE ColumnChecks(_, _)
\* the two checks of every item of the mapping, source column then target column
ColumnChecks(b, items) ==
    IF items = <<>> THEN <<>>
    ELSE <<[what |-> "source_column", raises |-> "BadParameter",
            ok |-> validate_column_exists(b.source_exists, SourceCols, Head(items)[1])],
           [what |-> "target_column", raises |-> "BadParameter",
            ok |-> validate_column_exists(b.target_exists, TargetCols, Head(items)[2])]>>
         \o ColumnChecks(b, Tail(items))

\* batch_update_impl, the validations in the order of the code
Validations(b) ==
    <<[what |-> "source_table", raises |-> "BadParameter",
       ok |-> validate_table_exists(b.source_exists, b.source)],
      [what |-> "target_table", raises |-> "UsageError",
       ok |-> validate_table_exists(b.target_exists, b.target)],
      [what |-> "source_id_column", raises |-> "BadParameter",
       ok |-> validate_column_exists(b.source_exists, SourceCols, b.source_id_column)],
      [what |-> "target_id_column", raises |-> "BadParameter",
       ok |-> validate_column_exists(b.target_exists, TargetCols, b.target_id_column)]>>
    \o ColumnChecks(b, MappingItems(b.cli_mapping))

\* the validations made: all of them, or those up to the first that fails
ValidationsMade(b) ==
    LET v == Validations(b)
        bad == {k \in 1..Len(v) : ~v[k].ok}
    IN IF bad = {} THEN v ELSE SubSeq(v, 1, MinOf(bad))

\* the engine disposed only when the command succeeds
finally_dispose_on_success(outcome) == outcome = "done"

\* finally: engine.dispose(), on every way out of the try block
finally_dispose(outcome) == TRUE

BUImplInit ==
    /\ MIdle
    /\ dp = DIdle
    /\ \E srcEx, tgtEx, compact \in BOOLEAN, cli \in CliMappings,
          idc \in IdColumnArgs, b \in 1..MaxPageSize :
       \E src \in IF srcEx THEN TablesOf(SourceRows, MaxImplRows) ELSE {<<>>},
          tgt \in IF tgtEx THEN TablesOf(TargetRows, MaxImplRows) ELSE {<<>>} :
        bu = [pc |-> "validate",
              caller |-> "impl",
              source |-> src,
              target |-> tgt,
              target0 |-> tgt,
              column_mapping |-> parse_column_mapping(cli),
              batch_size |-> b,
              pages |-> <<>>,
              page_idx |-> 1,
              total_updated |-> 0,
              result |-> 0,
              paginations |-> 0,
              stmtLog |-> <<>>,
              afterOk |-> tgt,
              error |-> "",
              source_exists |-> srcEx,     \* the source table is in the database
              target_exists |-> tgtEx,     \* the target table is in the database
              cli_mapping |-> cli,         \* the value of --column-mapping
              source_id_column |-> idc[1],
              target_id_column |-> idc[2],
              compact |-> compact,         \* --compact
              engine |-> "open",           \* engine = create_tidb_engine(...)
              checks |-> <<>>,             \* the validations made
              compactLog |-> <<>>,         \* the ALTER TABLE COMPACT statements issued
              returned |-> FALSE]          \* batch_update_impl is over

\* batch_update_impl, the validations: the first that fails raises, and the
\* finally block disposes the engine on the way out.
BUValidate ==
    /\ bu.pc = "validate"
    /\ LET made == ValidationsMade(bu)
           last == made[Len(made)]
       IN IF last.ok
          THEN bu' = [bu EXCEPT !.checks = made,
                                !.pc = IF bu.compact THEN "compact" ELSE "paginate"]
          ELSE bu' = [bu EXCEPT !.checks = made,
                                !.pc = "failed",
                                !.error = last.raises,
                                !.engine = IF finally_dispose("failed") THEN "disposed"
                                           ELSE @,
                                !.returned = TRUE]
    /\ UNCHANGED <<mvars, dp>>

\* if compact: compact_tiflash_replica, whose failure is raised as a
\* ClickException and leaves through the finally block
BUCompact ==
    /\ bu.pc = "compact"
    /\ \/ bu' = [bu EXCEPT !.compactLog = Append(@, "ok"),
                            !.pc = "paginate"]
       \/ bu' = [bu EXCEPT !.compactLog = Append(@, "failed"),
                            !.pc = "failed",
                            !.error = "ClickException",
                            !.engine = IF finally_dispose("failed") THEN "disposed"
                                       ELSE @,
                            !.returned = TRUE]
    /\ UNCHANGED <<mvars, dp>>

\* batch_update_table has returned or raised: the finally block, and the end
\* of batch_update_impl
BUReturn ==
    /\ bu.pc \in {"done", "failed"}
    /\ bu.caller = "impl"
    /\ ~bu.returned
    /\ bu' = [bu EXCEPT !.engine = IF finally_dispose(bu.pc) THEN "disposed" ELSE @,
                        !.returned = TRUE]
    /\ UNCHANGED <<mvars, dp>>

BUImplNext ==
    \/ BUValidate
    \/ BUCompact
    \/ BUPaginate
    \/ BUUpdatePage
    \/ BUReturn

SpecBatchImpl == BUImplInit /\ [][BUImplNext]_vars

\* The runs of either command that opens connections: a migrate run or a
\* batch-update command
ConnectionsInit == Init \/ BUImplInit

ConnectionsNext == Next \/ BUImplNext

SpecConnections == ConnectionsInit /\ [][ConnectionsNext]_vars

----------------------------------------------------------------------------
(* qdrant dump *)

MaxDumpIds == 3      \* point ids of the dumped collection: subsets of 1..MaxDumpIds
MaxDumpBatch == 2    \* batch sizes 1..MaxDumpBatch

\* No migrate and no batch-update run takes place during a dump.
OthersIdle == MIdle /\ bu = BUIdle

\* the limit taken as given
actual_limit_nomin(limit, total_count) == IF limit = None THEN total_count ELSE limit

\* if limit is None: limit = total_count; actual_limit = min(limit, total_count)
actual_limit(limit, total_count) ==
    LET l == IF limit = None THEN total_count ELSE limit
    IN IF l < total_count THEN l ELSE total_count

\* current_batch_size = min(batch_size, actual_limit - records_exported)
current_batch_size(batch_size, limit, records_exported) ==
    IF batch_size < limit - records_exported THEN batch_size
    ELSE limit - records_exported

\* A dump of a collection: the arguments limit (None when not given), offset
\* (None when not given) and batch_size, and the locals of dump().
DumpInit ==
    /\ OthersIdle
    /\ \E ids \in SUBSET (1..MaxDumpIds), exists \in BOOLEAN,
          limit \in {None} \cup (1..(MaxDumpIds + 1)),
          offset \in {None} \cup (1..(MaxDumpIds + 1)),
          batch_size \in 1..MaxDumpBatch :
        /\ ~exists => ids = {}
        /\ dp = [pc |-> "start", caller |-> "dump",
                 exists |-> exists, ids |-> ids,
                 limit |-> limit, offset |-> offset, batch_size |-> batch_size,
                 total_count |-> 0, actual_limit |-> 0,
                 current_offset |-> None, records_exported |-> 0,
                 file |-> <<>>,          \* the ids of the rows written, in order
                 f |-> NoFetch,          \* the fetch_batch call of this turn
                 error |-> ""]

\* dump(), up to the loop: collection_exists, count, actual_limit and the
\* starting offset (offset or 0)
DumpStart ==
    /\ dp.pc = "start"
    /\ IF ~dp.exists \/ Cardinality(dp.ids) = 0
       THEN dp' = [dp EXCEPT !.pc = "failed", !.error = "UsageError",
                             !.total_count = Cardinality(dp.ids)]
       ELSE dp' = [dp EXCEPT !.pc = "loop",
                             !.total_count = Cardinality(dp.ids),
                             !.actual_limit = actual_limit(dp.limit, Cardinality(dp.ids)),
                             !.current_offset = dp.offset,
                             !.records_exported = 0]
    /\ UNCHANGED <<mvars, bu>>

\* while records_exported < actual_limit: the batch size of the turn and the
\* call of fetch_batch
DumpLoop ==
    /\ dp.pc = "loop"
    /\ IF dp.records_exported < dp.actual_limit
       THEN dp' = [dp EXCEPT !.pc = "fetch",
                     !.f = NewFetch(dp.current_offset,
                             current_batch_size(dp.batch_size, dp.actual_limit,
                                                dp.records_exported))]
       ELSE dp' = [dp EXCEPT !.pc = "done"]
    /\ UNCHANGED <<mvars, bu>>

\* fetch_batch: one scroll call, whatever its outcome
FetchAttempt ==
    /\ dp.pc = "fetch"
    /\ \E outcome \in Outcomes :
        LET f == fetch_batch(dp.f, outcome, dp.ids)
        IN dp' = [dp EXCEPT !.f = f,
                            !.pc = IF f.status # "returned" THEN "fetch"
                                   ELSE IF dp.caller = "dump" THEN "write"
                                   ELSE "returned"]
    /\ UNCHANGED <<mvars, bu>>

\* dump raising when fetch_batch returns no points
AfterNoPoints_raise == "failed"

\* if not points: break
AfterNoPoints == "done"

\* the rest of the turn: no points ends the loop; else the rows are written,
\* the count and the offset advance
DumpWrite ==
    /\ dp.pc = "write"
    /\ LET points == dp.f.result.points
       IN IF points = <<>>
          THEN dp' = [dp EXCEPT !.pc = AfterNoPoints,
                                !.error = IF AfterNoPoints = "failed" THEN "Exception"
                                          ELSE @]
          ELSE dp' = [dp EXCEPT
                        !.file = @ \o points,
                        !.records_exported = @ + Len(points),
                        !.current_offset = dp.f.result.next_page_offset,
                        !.pc = "loop"]
    /\ UNCHANGED <<mvars, bu>>

DumpNext ==
    \/ DumpStart
    \/ DumpLoop
    \/ FetchAttempt
    \/ DumpWrite

SpecDump == DumpInit /\ [][DumpNext]_vars

\* fetch_batch called on its own with a batch size of at least the floor
FetchInit ==
    /\ OthersIdle
    /\ \E b \in (SizeFloor..MaxFetchSize) \cup {1000}, batch_offset \in {None, 2} :
        dp = [pc |-> "fetch", caller |-> "direct", ids |-> 1..MaxDumpIds,
              f |-> NewFetch(batch_offset, b)]

FetchNext == FetchAttempt

SpecFetch == FetchInit /\ [][FetchNext]_vars

\* A dump, or a fetch_batch call on its own, that is not suspended for ever:
\* the event loop runs the coroutine until it returns.
DumpOrFetchInit == DumpInit \/ FetchInit

SpecDumpFair == DumpOrFetchInit /\ [][DumpNext]_vars /\ WF_vars(DumpNext)

----------------------------------------------------------------------------
(* Properties of a migrate run *)

Terminated == pc \in {"done", "failed"}
OkWrites == {k \in 1..Len(writeLog) : writeLog[k].ok}
FailedWrites == {k \in 1..Len(writeLog) : ~writeLog[k].ok}
\* how many successful writes held point i
TimesWritten(i) == Cardinality({k \in OkWrites : i \in SeqToSet(writeLog[k].batch)})
DataScrolls == {k \in 1..Len(scrollLog) : scrollLog[k].scan = "data"}
FailedScrolls == {k \in 1..Len(scrollLog) : ~scrollLog[k].ok}
StableRun == grown = 0 /\ ~extIns

\* C1: a create-mode run that finishes over a stable source (and a target no
\* other client writes to) leaves exactly the source records in the table: every
\* source id is there with the source's vector and payload, written by exactly
\* one batch, and no other row is there; for every N, batch size and worker count.
C1_CreateTransfersAll ==
    (pc = "done" /\ job.mode = "create" /\ StableRun) =>
        /\ DOMAIN rows = srcIds
        /\ \A i \in srcIds : rows[i] = InsertedRow(i) /\ TimesWritten(i) = 1
        /\ Cardinality(DOMAIN rows) = vector_total

C1_Witness ==
    /\ pc = "done" /\ job.mode = "create" /\ StableRun
    /\ job.impl = "concurrent" /\ job.workers = 2 /\ job.batch_size = 2
    /\ Cardinality(srcIds) = 3
    /\ Len(writeLog) = 2

\* C2 (the claim as stated): the total a run that finishes reports never
\* exceeds the count read at job start, also when the source grows during the
\* run.
C2_TotalWithinStartCount == pc = "done" => processed_total <= vector_total

\* C3: an update-mode run never adds or removes a target row, changes only the
\* vector and payload of rows whose id is a source id, and a source point with no
\* row is skipped without an error (a write fails only by a fault outside the
\* data).
C3_UpdateKeepsRowSet ==
    job.mode = "update" =>
        /\ DOMAIN rows = DOMAIN rows0
        /\ \A i \in DOMAIN rows :
            /\ rows[i].created_at = rows0[i].created_at
            /\ i \notin srcIds => rows[i] = rows0[i]
            /\ rows[i] # rows0[i] => TimesWritten(i) >= 1
        /\ Cardinality(FailedWrites) <= faults
        /\ (pc = "done" /\ faults = 0) => Len(writeLog) = Cardinality(OkWrites)

C3_Witness ==
    /\ job.mode = "update" /\ pc = "done"
    /\ srcIds \ DOMAIN rows # {}
    /\ \E i \in DOMAIN rows : i \notin srcIds
    /\ \E i \in DOMAIN rows : rows[i].vector = json_dumps(PointVector(i))
    /\ \E k \in OkWrites : SeqToSet(writeLog[k].batch) \cap DOMAIN rows = {}

\* C8: in create mode a batch that fails to write (a duplicate id, or any other
\* failure) fails the run: it is attempted once, none of its records is kept,
\* the batches written before it stay, and with one worker it is the last batch
\* fetched and the last written.
C8_FailedBatchFailsRun ==
    (job.mode = "create" /\ FailedWrites # {}) =>
        /\ pc # "done"
        /\ error = "Exception"
        /\ \A k \in FailedWrites :
            /\ \A j \in 1..Len(writeLog) : j # k => writeLog[j].batch # writeLog[k].batch
            /\ \A i \in SeqToSet(writeLog[k].batch) :
                  i \in DOMAIN rows => rows[i] # InsertedRow(i)
        /\ \A k \in OkWrites : \A i \in SeqToSet(writeLog[k].batch) :
              i \in DOMAIN rows /\ rows[i] = InsertedRow(i)
        /\ job.workers = 1 =>
            /\ pc = "failed"
            /\ FailedWrites = {Len(writeLog)}
            /\ Cardinality(DataScrolls) = Len(writeLog)
            /\ batch = <<>> /\ queue = <<>> /\ BusySlots = {}

C8_Witness ==
    /\ job.mode = "create" /\ job.workers = 1 /\ pc = "failed"
    /\ faults = 0 /\ extIns
    /\ Len(writeLog) = 2 /\ writeLog[1].ok /\ ~writeLog[2].ok
    /\ SeqToSet(writeLog[2].batch) \ DOMAIN rows # {}

\* C9: no engine is used by two batch writes at the same time. With one worker
\* every write uses the engine opened at job start, one write at a time; with
\* more workers every write has an engine of its own that no other write uses,
\* before or after.
C9_NoSharedEngine ==
    LET inflight == [w \in BusySlots |-> slots[w].engine]
        logged == {writeLog[k].engine : k \in 1..Len(writeLog)}
    IN /\ \A w1, w2 \in BusySlots : w1 # w2 => inflight[w1] # inflight[w2]
       /\ job.workers = 1 =>
            /\ Cardinality(BusySlots) <= 1
            /\ \A w \in BusySlots : inflight[w] = db_engine /\ engineOpen
            /\ logged \subseteq {db_engine}
       /\ job.workers > 1 =>
            /\ \A w \in BusySlots : inflight[w] # db_engine /\ inflight[w] \notin logged
            /\ db_engine \notin logged
            /\ Cardinality(logged) = Len(writeLog)

C9_Witness ==
    /\ job.workers = 2
    /\ Cardinality(BusySlots) = 2
    /\ Len(writeLog) >= 1

\* C10 (the claim as stated): with a declared distance that is neither cosine
\* nor l2 the run ends in a usage error and no table is dropped, created or
\* written.
C10_BadMetricRejected ==
    (collExists /\ Lower(distance) \notin ValidMetrics) =>
        /\ "drop" \notin SeqToSet(ddlLog)
        /\ "create" \notin SeqToSet(ddlLog)
        /\ writeLog = <<>>
        /\ rows = rows0
        /\ Terminated => (pc = "failed" /\ error = "UsageError")

----------------------------------------------------------------------------
(* Properties of a batch-update run *)

DistinctIds(t) == \A j, k \in DOMAIN t : j # k => t[j].id # t[k].id
CeilDiv(n, b) == (n + b - 1) \div b
Paginated == bu.pc \in {"update", "done", "failed"}
FailedStmts == {k \in 1..Len(bu.stmtLog) : ~bu.stmtLog[k].ok}
MappedTargets == {bu.column_mapping[sc] : sc \in DOMAIN bu.column_mapping}

RECURSIVE SumRowcounts(_)
SumRowcounts(log) ==
    IF log = <<>> THEN 0 ELSE log[1].rowcount + SumRowcounts(Tail(log))

RECURSIVE SumPageSizes(_)
SumPageSizes(pages) ==
    IF pages = <<>> THEN 0 ELSE pages[1].page_size + SumPageSizes(Tail(pages))

\* The pages are a partition of the ids into ascending key intervals.
PagesPartitionIds ==
    LET P == bu.pages
        N == Len(bu.source)
    IN /\ Len(P) = CeilDiv(N, bu.batch_size)
       /\ \A k \in 1..Len(P) :
            /\ P[k].page_num = k
            /\ ToNumber(P[k].start_key) <= ToNumber(P[k].end_key)
       /\ \A k \in 1..(Len(P) - 1) :
            ToNumber(P[k].end_key) < ToNumber(P[k + 1].start_key)
       /\ \A r \in DOMAIN bu.source : \E k \in 1..Len(P) :
            InRange(bu.source[r].id, P[k].start_key, P[k].end_key)
       /\ SumPageSizes(P) = N

\* C4 (the claim as stated): for every table, unique ids or not, the pages of
\* get_table_pagination are ceil(N/B) in number, ascending, with pairwise
\* disjoint [start_key, end_key] intervals that contain every id, and their
\* page_size values sum to N.
C4_PagesPartitionIds == Paginated => PagesPartitionIds

\* C4 (amended): for every table whose ordering column holds distinct values,
\* the pages are ceil(N/B) in number, ascending, with pairwise disjoint
\* intervals that contain every id, and their page_size values sum to N.
C4_PagesPartitionDistinctIds ==
    (Paginated /\ DistinctIds(bu.source)) => PagesPartitionIds

C4_Witness ==
    /\ Paginated /\ DistinctIds(bu.source)
    /\ Len(bu.source) = 3 /\ bu.batch_size = 2
    /\ Len(bu.pages) = 2
    /\ bu.pages[2].start_key = Str(10)

\* What a completed batch-update leaves, given the source rows it is held to.
TargetAsSource ==
    /\ Len(bu.target) = Len(bu.target0)
    /\ \A j \in DOMAIN bu.target :
        /\ \A c \in DOMAIN bu.target[j] \ MappedTargets :
              bu.target[j][c] = bu.target0[j][c]
        /\ \A k \in DOMAIN bu.source :
              bu.source[k].id = bu.target[j].id =>
                \A sc \in DOMAIN bu.column_mapping :
                    bu.target[j][bu.column_mapping[sc]] = bu.source[k][sc]
        /\ (\A k \in DOMAIN bu.source : bu.source[k].id # bu.target[j].id) =>
              bu.target[j] = bu.target0[j]

\* C5 (the claim as stated): after a batch-update that completes, every target
\* row whose id equals the id of a source row has each mapped column equal to
\* that source row's column; rows with no match, unmapped columns and the set of
\* rows are unchanged.
C5_TargetMatchesSource == bu.pc = "done" => TargetAsSource

\* C5 (amended): the same, for a source table whose id column holds distinct
\* values.
C5_TargetMatchesDistinctSource ==
    (bu.pc = "done" /\ DistinctIds(bu.source)) => TargetAsSource

C5_Witness ==
    /\ bu.pc = "done" /\ DistinctIds(bu.source)
    /\ Len(bu.pages) >= 2
    /\ Len(bu.target) = 2
    /\ \E j \in DOMAIN bu.target : bu.target[j] # bu.target0[j]
    /\ \E j \in DOMAIN bu.target :
          \A k \in DOMAIN bu.source : bu.source[k].id # bu.target[j].id
    /\ \E k \in DOMAIN bu.source : bu.source[k].id = 10

\* The scenario of 10500 rows in batches of 5000: 3 pages of 5000, 5000 and 500.
ScenarioPages ==
    /\ PageNums(10500, 5000) = {1, 2, 3}
    /\ Cardinality(PageGroup(10500, 5000, 1)) = 5000
    /\ Cardinality(PageGroup(10500, 5000, 2)) = 5000
    /\ Cardinality(PageGroup(10500, 5000, 3)) = 500

\* C6: with distinct ids in both id columns, a batch-update over N source rows
\* computes the pages once, issues one UPDATE per page in ascending page order
\* and none twice, ceil(N/B) in all when it completes, over pages of B rows and
\* a last page of the rest, and returns the sum of the statements' row counts,
\* at most N.
C6_OneUpdatePerPage ==
    (DistinctIds(bu.source) /\ DistinctIds(bu.target0)) =>
        LET N == Len(bu.source)
            B == bu.batch_size
            n == CeilDiv(N, B)
        IN /\ bu.paginations = (IF bu.pc = "paginate" THEN 0 ELSE 1)
           /\ \A k \in 1..Len(bu.stmtLog) : bu.stmtLog[k].page_num = k
           /\ Len(bu.stmtLog) <= n
           /\ bu.total_updated = SumRowcounts(bu.stmtLog)
           /\ bu.total_updated <= N
           /\ bu.pc = "done" =>
                /\ Len(bu.stmtLog) = n
                /\ Len(bu.pages) = n
                /\ \A k \in 1..n :
                      bu.pages[k].page_size = (IF k < n THEN B ELSE N - (n - 1) * B)
                /\ bu.result = SumRowcounts(bu.stmtLog)
           /\ ScenarioPages

C6_Witness ==
    /\ bu.pc = "done"
    /\ DistinctIds(bu.source) /\ DistinctIds(bu.target0)
    /\ Len(bu.source) = 3 /\ bu.batch_size = 2
    /\ Len(bu.stmtLog) = 2
    /\ bu.result = 2

\* C7: when the UPDATE of a page fails, batch-update ends with an error at
\* once: the page is attempted once and changes nothing, no later page is
\* attempted, and the target is as the last page that succeeded left it.
C7_FailedPageAborts ==
    FailedStmts # {} =>
        /\ bu.pc = "failed"
        /\ bu.error = "ClickException"
        /\ FailedStmts = {Len(bu.stmtLog)}
        /\ \A k \in 1..Len(bu.stmtLog) : bu.stmtLog[k].page_num = k
        /\ bu.target = bu.afterOk
        /\ bu.total_updated = SumRowcounts(bu.stmtLog)

C7_Witness ==
    /\ bu.pc = "failed"
    /\ Len(bu.stmtLog) = 2 /\ Len(bu.pages) = 3
    /\ bu.stmtLog[1].ok /\ bu.stmtLog[1].rowcount = 1
    /\ bu.target # bu.target0

----------------------------------------------------------------------------
(* Properties of the precondition checks of migrate *)

PreconditionFails == ~collExists \/ srcIds = {}

\* C11: migrate checks that the collection exists and that it holds a record,
\* each once and before any scroll; when a check fails the run ends in a usage
\* error with no scroll made, no target connection opened and no drop, create,
\* insert or update issued.
C11_PreconditionsFirst ==
    /\ \E n \in 0..2 : preLog = SubSeq(<<"collection_exists", "count">>, 1, n)
    /\ scrollLog # <<>> => preLog = <<"collection_exists", "count">>
    /\ PreconditionFails =>
        /\ scrollLog = <<>>
        /\ ~engineOpen /\ openEngines = {}
        /\ ddlLog = <<>>
        /\ writeLog = <<>>
        /\ rows = rows0
        /\ pc \in {"check_collection", "count", "failed"}
        /\ pc = "failed" =>
            /\ error = "UsageError"
            /\ preLog = (IF collExists THEN <<"collection_exists", "count">>
                         ELSE <<"collection_exists">>)

C11_Witness ==
    /\ pc = "failed" /\ error = "UsageError"
    /\ collExists /\ srcIds = {}
    /\ preLog = <<"collection_exists", "count">>
    /\ rows0 # EmptyRows /\ job.drop_table /\ job.mode = "create"

\* The target table is missing, or lacks a column the job needs.
TargetUnfit ==
    \/ ~tblExists
    \/ "id" \notin tblCols
    \/ "vector" \notin tblCols
    \/ job.payload_column # NoColumn /\ job.payload_column \notin tblCols

\* C12: an update-mode run never drops or creates a table, drop flag or not.
\* When the table is missing or lacks the id column, the vector column or the
\* configured payload column the run fails with no data batch fetched and no
\* update issued; a table that lacks only a payload column nobody configured
\* passes the check.
C12_UpdateVerifiesTable ==
    job.mode = "update" =>
        /\ SeqToSet(ddlLog) \subseteq {"check"}
        /\ Len(ddlLog) <= 1
        /\ TargetUnfit =>
            /\ DataScrolls = {}
            /\ writeLog = <<>>
            /\ rows = rows0
            /\ pc \notin {"stream", "done"}
            /\ ddlLog # <<>> => (pc = "failed" /\ error # "")
        /\ (~TargetUnfit /\ ddlLog # <<>>) =>
            /\ pc \in {"stream", "done", "failed"}
            /\ pc = "failed" => (FailedWrites # {} \/ FailedScrolls # {})

C12_Witness ==
    /\ job.mode = "update" /\ job.drop_table
    /\ pc = "failed" /\ ddlLog = <<"check">>
    /\ tblExists /\ "vector" \notin tblCols
    /\ Cardinality(srcIds) >= 2

----------------------------------------------------------------------------
(* Properties of fetch_batch and of a dump *)

RECURSIVE HalvingsOf(_)
\* b, b halved, b halved twice, ...
HalvingsOf(b) == IF b = 0 THEN {0} ELSE {b} \cup HalvingsOf(b \div 2)

FetchCalls == IF dp.pc \in {"fetch", "write", "returned"} THEN dp.f.flog ELSE <<>>
FetchReturned == dp.pc \in {"write", "returned"} /\ dp.f.status = "returned"
LastCallFailed ==
    FetchCalls # <<>> /\ FetchCalls[Len(FetchCalls)].outcome # "ok"

\* C13: from a requested size b >= 100 every scroll call of fetch_batch uses a
\* limit that is b halved some number of times, at most b and at least 100; the
\* limit changes only by one halving after a "Message too long" failure at a
\* size above 100; once a halving would go below 100 the size stays, and when
\* the attempts at that size run out the result is empty.
C13_SizesHalvedToFloor ==
    (dp.pc \in {"fetch", "write", "returned"} /\ dp.f.requested >= SizeFloor) =>
        LET c == FetchCalls
        IN /\ \A k \in 1..Len(c) :
                /\ c[k].limit \in HalvingsOf(dp.f.requested)
                /\ c[k].limit <= dp.f.requested
                /\ c[k].limit >= SizeFloor
           /\ Len(c) >= 1 => c[1].limit = dp.f.requested
           /\ \A k \in 1..(Len(c) - 1) :
                \/ c[k + 1].limit = c[k].limit
                \/ /\ c[k + 1].limit = c[k].limit \div 2
                   /\ c[k].outcome = "too_long"
                   /\ c[k].limit > SizeFloor
           /\ \A k \in 1..(Len(c) - 1) :
                (c[k].outcome = "too_long" /\ c[k].limit \div 2 >= SizeFloor) =>
                    c[k + 1].limit = c[k].limit \div 2
           /\ \A k \in 1..Len(c) :
                (c[k].outcome = "too_long" /\ c[k].limit \div 2 < SizeFloor) =>
                    /\ \A j \in k..Len(c) : c[j].limit = c[k].limit
                    /\ (FetchReturned /\ LastCallFailed) =>
                          /\ dp.f.result = EmptyResult
                          /\ c[Len(c)].attempt = max_retries - 1

C13_Witness ==
    /\ dp.pc = "returned" /\ dp.f.requested = 1000
    /\ Len(dp.f.flog) = 6
    /\ dp.f.flog[3].outcome = "too_long" /\ dp.f.flog[3].limit = 250
    /\ dp.f.flog[6].limit = 125 /\ dp.f.flog[6].outcome = "too_long"
    /\ dp.f.result = EmptyResult

\* C14: fetch_batch never raises. A scroll that fails with anything other than
\* a size failure is followed by a delay and a retry at the same size, unless it
\* was the third attempt at that size; no size is tried more than 3 times, and
\* a call that ends on a failed attempt returns no records and no cursor.
C14_RetriesThenEmpty ==
    dp.pc \in {"fetch", "write", "returned"} =>
        LET c == FetchCalls
        IN /\ dp.f.status \in {"running", "returned"}
           /\ \A k \in 1..Len(c) :
                /\ c[k].attempt \in 0..(max_retries - 1)
                /\ Cardinality({j \in 1..Len(c) : c[j].limit = c[k].limit}) <= max_retries
                /\ c[k].slept => c[k].outcome # "ok"
                /\ (c[k].outcome = "error" /\ c[k].attempt < max_retries - 1) =>
                      /\ c[k].slept
                      /\ dp.f.status = "running" \/ k < Len(c)
                      /\ k < Len(c) => /\ c[k + 1].limit = c[k].limit
                                       /\ c[k + 1].attempt = c[k].attempt + 1
                /\ (c[k].outcome = "error" /\ c[k].attempt = max_retries - 1) =>
                      /\ ~c[k].slept
                      /\ k = Len(c) /\ dp.f.status = "returned"
           /\ (\A k \in 1..Len(c) : c[k].outcome # "too_long") => Len(c) <= max_retries
           /\ (FetchReturned /\ LastCallFailed) => dp.f.result = EmptyResult
           /\ (FetchReturned /\ ~LastCallFailed) =>
                dp.f.result = Scroll(dp.ids, dp.f.offset, c[Len(c)].limit)

C14_Witness ==
    /\ dp.pc = "returned"
    /\ Len(dp.f.flog) = 3
    /\ \A k \in 1..3 : dp.f.flog[k].outcome = "error" /\ dp.f.flog[k].limit = 300
    /\ dp.f.flog[1].slept /\ dp.f.flog[2].slept
    /\ dp.f.result = EmptyResult

----------------------------------------------------------------------------
(* Properties of the data scan of migrate *)

\* C15 (the claim as stated): a fetch of a migrate run that fails is retried,
\* up to 3 attempts, instead of ending the run: a run in which fewer than 3
\* scroll calls failed and no write failed does not fail, and when it is over
\* in create mode over a stable source, every source record is in the table.
C15_FetchFailureRetried ==
    (FailedScrolls # {} /\ Cardinality(FailedScrolls) < max_retries
        /\ FailedWrites = {}) =>
        /\ pc # "failed"
        /\ (Terminated /\ job.mode = "create" /\ StableRun) => DOMAIN rows = srcIds

\* The scenario of 250 records in batches of 100: three turns of
\* batch_generator yield 100, 100 and 50 points, and the third has no cursor.
ScenarioFetches ==
    LET g1 == batch_generator(1..250, None, 100)
        g2 == batch_generator(1..250, g1.offset, 100)
        g3 == batch_generator(1..250, g2.offset, 100)
    IN /\ <<Len(g1.points), Len(g2.points), Len(g3.points)>> = <<100, 100, 50>>
       /\ <<g1.done, g2.done, g3.done>> = <<FALSE, FALSE, TRUE>>
       /\ g3.offset = None

\* the data scroll calls, in order
DataScrollSeq == SelectSeq(scrollLog, LAMBDA e : e.scan = "data")

\* C16: with one worker every fetched batch is written before the next fetch.
\* A run that finishes over a stable source of N records with batch size B has
\* made ceil(N/B) fetch calls, which returned B records each and the rest in
\* the last, wrote each batch once in that order, made no call after the one
\* that returned no cursor, and ends with the progress total N.
C16_OneWorkerSequence ==
    job.workers = 1 =>
        LET d == DataScrollSeq
            N == Cardinality(srcIds)
            B == job.batch_size
            n == (N + B - 1) \div B
        IN /\ Len(d) - Len(writeLog) \in {0, 1}
           /\ \A k \in 1..(Len(d) - 1) : d[k].ok /\ d[k].next # None
           /\ \A k \in 1..Len(writeLog) :
                writeLog[k].batch = [i \in 1..d[k].got |-> d[k].offset + i
                                        - (IF d[k].offset = None THEN 0 ELSE 1)]
           /\ (pc = "done" /\ grown = 0) =>
                /\ Len(d) = n /\ Len(writeLog) = n
                /\ \A k \in 1..n :
                    /\ d[k].limit = B
                    /\ d[k].got = (IF k < n THEN B ELSE N - (n - 1) * B)
                    /\ d[k].offset = (IF k = 1 THEN None ELSE (k - 1) * B + 1)
                    /\ writeLog[k].ok
                /\ d[n].next = None
                /\ processed_total = N /\ vector_total = N
           /\ ScenarioFetches

C16_Witness ==
    /\ job.workers = 1 /\ job.impl = "legacy" /\ pc = "done" /\ grown = 0
    /\ Cardinality(srcIds) = 3 /\ job.batch_size = 2
    /\ Len(writeLog) = 2 /\ Len(writeLog[2].batch) = 1
    /\ processed_total = 3

----------------------------------------------------------------------------
(* Properties of update mode *)

\* C17: when the same update-mode job is run a second time over a source that
\* has not changed, the table is, during and after the second run, as the
\* first run left it: same ids, vectors and payloads.
C17_UpdateIdempotent ==
    (again.n = 2 /\ grown = 0) =>
        /\ DOMAIN rows = DOMAIN again.rows1
        /\ \A i \in DOMAIN rows :
            /\ rows[i].vector = again.rows1[i].vector
            /\ rows[i].payload = again.rows1[i].payload

C17_Witness ==
    /\ again.n = 2 /\ grown = 0 /\ pc = "done"
    /\ Len(writeLog) = 2
    /\ job.payload_column = NoColumn
    /\ \E i \in DOMAIN rows : i \in srcIds /\ rows[i] # OldRow(i)
    /\ \E i \in DOMAIN rows : i \notin srcIds

\* C18: in update mode a row a batch has matched holds the point's vector, and
\* the point's payload when a payload column is configured; with no payload
\* column configured the payload of every row is as it was; a row no batch has
\* matched is as it was.
C18_UpdateColumns ==
    job.mode = "update" =>
        \A i \in DOMAIN rows :
            /\ TimesWritten(i) >= 1 =>
                /\ rows[i].vector = json_dumps(PointVector(i))
                /\ job.payload_column # NoColumn =>
                      rows[i].payload = json_dumps(PointPayload(i))
            /\ job.payload_column = NoColumn => rows[i].payload = rows0[i].payload
            /\ TimesWritten(i) = 0 => rows[i] = rows0[i]

C18_Witness ==
    /\ job.mode = "update" /\ job.payload_column = NoColumn /\ pc = "done"
    /\ \E i \in DOMAIN rows :
        /\ rows[i].vector = json_dumps(PointVector(i))
        /\ rows[i].payload = OldValue(i)
    /\ \E i \in DOMAIN rows : rows[i] = OldRow(i)

----------------------------------------------------------------------------
(* Properties of a dump *)

DumpRunning == dp.pc \in {"loop", "fetch", "write", "done"}

\* C19: in a dump of a stable collection no record is written to the file more
\* than once, whatever the limit, the start offset and the batch size: every
\* row written is a record of the collection, the rows written are as many as
\* counted, and never more than the limit or the collection holds.
C19_DumpWritesOnce ==
    DumpRunning =>
        /\ \A j, k \in 1..Len(dp.file) : j # k => dp.file[j] # dp.file[k]
        /\ SeqToSet(dp.file) \subseteq dp.ids
        /\ Len(dp.file) = dp.records_exported
        /\ dp.records_exported <= dp.actual_limit
        /\ dp.actual_limit <= Cardinality(dp.ids)
        /\ dp.limit # None => dp.actual_limit <= dp.limit

C19_Witness ==
    /\ dp.pc = "done"
    /\ dp.ids = 1..3 /\ dp.offset = 2 /\ dp.limit = None /\ dp.batch_size = 2
    /\ dp.file = <<2, 3, 1>>

C21_CreateIfNotExists ==
    (job.mode = "create" /\ ~job.drop_table
        /\ Lower(distance) \in ValidMetrics) =>
        /\ "create_refused" \notin SeqToSet(ddlLog)
        /\ (pc = "failed" /\ FailedWrites = {} /\ FailedScrolls = {}) =>
              error # "ClickException"

\* C24: the first fetch of the data scan uses no cursor, also when the
\* id-sampling fetch before it returned one; every later fetch of the scan
\* comes after a fetch that returned a cursor and uses that cursor; no two
\* fetches of the scan use the same cursor.
C24_CursorChain ==
    pc # "idle" =>
        LET d == DataScrollSeq
        IN /\ d # <<>> => d[1].offset = None
           /\ \A k \in 2..Len(d) :
                /\ d[k - 1].ok
                /\ d[k - 1].next # None
                /\ d[k].offset = d[k - 1].next
           /\ \A j, k \in 1..Len(d) : j # k => d[j].offset # d[k].offset
           /\ \A k \in 2..Len(scrollLog) :
                (scrollLog[k].scan = "data" /\ scrollLog[k - 1].scan = "sample")
                    => scrollLog[k].offset = None

C24_Witness ==
    /\ pc = "done"
    /\ job.impl = "concurrent"
    /\ Len(scrollLog) >= 4
    /\ scrollLog[1].scan = "sample" /\ scrollLog[1].next # None
    /\ Len(DataScrollSeq) = 3
    /\ DataScrollSeq[3].offset = DataScrollSeq[2].next
    /\ DataScrollSeq[3].next = None

\* The phase of a run: precondition checks, bootstrap, streaming, done; a run
\* can fail from any of them.
PhaseOf(p) ==
    IF p \in {"check_collection", "count", "sample", "get_collection"} THEN 1
    ELSE IF p \in {"connect", "drop", "create", "check"} THEN 2
    ELSE IF p = "stream" THEN 3
    ELSE IF p = "done" THEN 4
    ELSE IF p = "failed" THEN 5
    ELSE 0

\* the table is created, or verified to have the required columns
BootstrapDone ==
    IF job.mode = "create"
    THEN ddlLog # <<>> /\ ddlLog[Len(ddlLog)] = "create"
    ELSE /\ ddlLog = <<"check">>
         /\ tblExists
         /\ {"id", "vector"} \subseteq tblCols
         /\ job.payload_column # NoColumn => job.payload_column \in tblCols

\* what holds of a run in each phase
PhaseOrder ==
    pc # "idle" =>
        /\ PhaseOf(pc) = 1 =>
             /\ ~engineOpen /\ ddlLog = <<>>
             /\ writeLog = <<>> /\ DataScrolls = {}
        /\ PhaseOf(pc) = 2 =>
             /\ preLog = <<"collection_exists", "count">>
             /\ collExists /\ vector_total > 0
             /\ writeLog = <<>> /\ DataScrolls = {}
        /\ (PhaseOf(pc) \in {3, 4} \/ writeLog # <<>> \/ DataScrolls # {}) =>
             /\ BootstrapDone
             /\ preLog = <<"collection_exists", "count">>
        /\ job.mode = "create" =>
             /\ ddlLog \in {<<>>, <<"drop">>, <<"drop", "create">>, <<"create">>,
                            <<"create_refused">>}
             /\ (job.drop_table /\ Len(ddlLog) >= 1) => ddlLog[1] = "drop"
             /\ ~job.drop_table => "drop" \notin SeqToSet(ddlLog)
        /\ (pc = "failed" /\ ~BootstrapDone) =>
             /\ writeLog = <<>> /\ DataScrolls = {}
             /\ processed_total = 0
             /\ job.mode = "update" => rows = rows0

\* C27: a run goes through the precondition checks, the bootstrap and the
\* streaming in that order and never back; in create mode a requested drop is
\* the first statement and the create follows it; no data batch is fetched or
\* written before the create or the verification has succeeded, and a run that
\* fails before that has fetched no data batch and written no record.
C27_PhasesInOrder ==
    /\ []PhaseOrder
    /\ [][PhaseOf(pc') >= PhaseOf(pc)]_vars

C27_Witness ==
    /\ pc = "failed" /\ job.mode = "create" /\ job.drop_table
    /\ ddlLog = <<"drop">>
    /\ rows0 # EmptyRows /\ rows = EmptyRows
    /\ writeLog = <<>> /\ DataScrolls = {}

\* the points of the writes that succeeded
PointsWritten == UNION {SeqToSet(writeLog[k].batch) : k \in OkWrites}

\* C25 (the claim as stated): at every point of a run the progress total is
\* the number of records written to the target so far: the rows inserted in
\* create mode, the rows matched and updated in update mode.
C25_ProgressIsWritten ==
    pc # "idle" =>
        processed_total =
            IF job.mode = "create" THEN Cardinality(PointsWritten)
            ELSE Cardinality(PointsWritten \cap DOMAIN rows)

\* the last fetch_batch call of the dump returned after a scroll that failed
LastFetchGaveUp ==
    /\ dp.f.status = "returned"
    /\ dp.f.flog[Len(dp.f.flog)].outcome # "ok"

\* C26: a dump fails only before its first fetch. When fetch_batch gives up
\* the dump makes no further fetch, ends as a completed export with no error
\* and with fewer records than the limit; every completed export that is
\* short of the limit ended on the same empty result, whether fetch_batch gave
\* up or the scroll returned no record.
C26_GiveUpIsSoftStop ==
    (dp.pc # "idle" /\ dp.caller = "dump") =>
        /\ dp.pc = "failed" => (dp.f = NoFetch /\ dp.error = "UsageError")
        /\ dp.pc # "failed" => dp.error = ""
        /\ (dp.pc = "done" /\ LastFetchGaveUp) =>
             /\ dp.records_exported < dp.actual_limit
             /\ dp.f.result = EmptyResult
        /\ (dp.pc = "done" /\ dp.records_exported < dp.actual_limit) =>
             /\ dp.f.status = "returned"
             /\ dp.f.result = EmptyResult

C26_Witness ==
    /\ dp.pc = "done" /\ dp.caller = "dump"
    /\ LastFetchGaveUp
    /\ Len(dp.f.flog) = max_retries
    /\ dp.ids = 1..3 /\ dp.limit = None
    /\ dp.file = <<1>>
    /\ dp.error = ""

RECURSIVE Halvings(_)
\* how many times b can be halved with the result still at least the floor
Halvings(b) == IF b \div 2 >= SizeFloor THEN 1 + Halvings(b \div 2) ELSE 0

\* a fetch_batch call has made at most 3 scroll calls for the size asked and
\* for each size it can be halved to, and a dump has made no more rows than
\* its limit
FetchBounded ==
    dp.pc \in {"fetch", "write", "returned"} =>
        /\ Len(dp.f.flog) <= max_retries * (Halvings(dp.f.requested) + 1)
        /\ dp.f.status = "running" =>
              Len(dp.f.flog) < max_retries * (Halvings(dp.f.requested) + 1)

\* a turn of the dump loop that does not end the loop exports a record
TurnExports ==
    (dp.pc = "write" /\ dp'.pc # "write") =>
        \/ dp'.pc = "done"
        \/ /\ dp'.pc = "loop"
           /\ dp'.records_exported > dp.records_exported
           /\ dp'.records_exported <= dp.actual_limit

\* C29: whatever the scroll calls do, a fetch_batch call returns after at most
\* 3 * (h + 1) of them, h being the number of times the size asked can be
\* halved to a size of at least 100; every turn of the dump loop ends the loop
\* or exports at least one record; and every dump and every fetch_batch call
\* comes to its end.
C29_FetchAndDumpTerminate ==
    /\ []FetchBounded
    /\ [][TurnExports]_vars
    /\ <>(dp.pc \in {"done", "failed", "returned"})

C29_Witness ==
    /\ dp.pc = "returned"
    /\ dp.f.requested = 1000
    /\ Len(dp.f.flog) = 12
    /\ dp.f.flog[12].limit = 125
    /\ dp.f.result = EmptyResult

----------------------------------------------------------------------------
(* Properties of the batch-update command *)

BUImplRun == bu.pc # "idle" /\ bu.caller = "impl"

\* C22 (the claim as stated): validate_table_exists is true exactly when the
\* table exists, with or without rows: the check of an existing table passes,
\* and a command over an existing empty source table does not fail at the
\* check of the source table, and when it ends well it has updated 0 records
\* with no UPDATE.
C22_EmptyTableExists ==
    (BUImplRun /\ bu.checks # <<>>) =>
        /\ bu.checks[1].ok = bu.source_exists
        /\ Len(bu.checks) >= 2 => bu.checks[2].ok = bu.target_exists
        /\ (bu.source_exists /\ bu.source = <<>> /\ bu.pc = "done") =>
              (bu.result = 0 /\ bu.stmtLog = <<>>)

\* C23 (the claim as stated): for every pair a:b of --column-mapping the
\* target column a is set from the source column b: the SET clause of every
\* UPDATE is t.a = s.b for the pairs given.
C23_TargetFirst ==
    BUImplRun =>
        \A k \in 1..Len(bu.stmtLog) :
            bu.stmtLog[k].set \subseteq
                {<<bu.cli_mapping[j][1], bu.cli_mapping[j][2]>> :
                    j \in 1..Len(bu.cli_mapping)}

\* every validation of the command has been made, in the order source table,
\* target table, source id column, target id column, then the columns of the
\* mapping, and each has passed
ValidationPassed ==
    /\ Len(bu.checks) = 4 + 2 * Cardinality(DOMAIN bu.column_mapping)
    /\ \A k \in 1..Len(bu.checks) : bu.checks[k].ok
    /\ <<bu.checks[1].what, bu.checks[2].what, bu.checks[3].what, bu.checks[4].what>>
         = <<"source_table", "target_table", "source_id_column", "target_id_column">>
    /\ \A k \in 5..Len(bu.checks) :
         bu.checks[k].what = IF k % 2 = 1 THEN "source_column" ELSE "target_column"

\* C28: batch-update compacts, paginates and updates only after every
\* validation has passed, so only when both tables are found, both id columns
\* and every mapped column exist; compaction is issued at most once and only
\* when requested; when it is requested every pagination and UPDATE comes after
\* a compaction that succeeded, and after a compaction that failed the command
\* has failed with no UPDATE issued.
C28_ValidateCompactUpdate ==
    BUImplRun =>
        /\ (bu.compactLog # <<>> \/ bu.paginations > 0 \/ bu.stmtLog # <<>>) =>
             /\ ValidationPassed
             /\ bu.source_exists /\ bu.target_exists
             /\ bu.source_id_column \in SourceCols
             /\ bu.target_id_column \in TargetCols
             /\ \A sc \in DOMAIN bu.column_mapping :
                  sc \in SourceCols /\ bu.column_mapping[sc] \in TargetCols
        /\ Len(bu.compactLog) <= 1
        /\ ~bu.compact => bu.compactLog = <<>>
        /\ (bu.compact /\ (bu.paginations > 0 \/ bu.stmtLog # <<>>)) =>
             bu.compactLog = <<"ok">>
        /\ bu.compactLog = <<"failed">> =>
             /\ bu.paginations = 0 /\ bu.stmtLog = <<>>
             /\ bu.target = bu.target0
             /\ bu.pc = "failed" /\ bu.error = "ClickException"

C28_Witness ==
    /\ BUImplRun
    /\ bu.compact /\ bu.compactLog = <<"ok">>
    /\ Len(bu.stmtLog) = 2
    /\ Cardinality(DOMAIN bu.column_mapping) = 2
    /\ bu.pc = "done" /\ bu.returned
    /\ bu.target # bu.target0

----------------------------------------------------------------------------
(* Connections *)

\* the engines of the writes that have ended
EnginesOfEndedWrites == {writeLog[k].engine : k \in 1..Len(writeLog)}

\* C30: with more than one worker the engines open for batch writes are
\* exactly those of the writes in progress, so no engine of a write that has
\* ended, well or not, is open, and none is open when the run is over; the
\* engine of a batch-update command is disposed whenever the command is over,
\* after a validation failure, a compaction failure, a failing page or
\* success, and not before.
C30_ConnectionsClosed ==
    /\ (pc # "idle" /\ job.workers > 1) =>
         /\ openEngines = {slots[w].engine : w \in BusySlots}
         /\ Cardinality(openEngines) = Cardinality(BusySlots)
         /\ openEngines \cap EnginesOfEndedWrites = {}
         /\ db_engine \notin openEngines
         /\ Terminated => openEngines = {}
    /\ BUImplRun =>
         /\ bu.returned <=> bu.engine = "disposed"
         /\ bu.pc \in {"validate", "compact", "paginate", "update"} =>
              bu.engine = "open"

C30_Witness ==
    /\ job.workers > 1
    /\ pc = "failed"
    /\ FailedWrites # {}
    /\ Cardinality(EnginesOfEndedWrites) >= 2
    /\ openEngines = {}

====
